---- MODULE Spec2Model ----
(***************************************************************************)
(* Model of core/imap_client.go of go-imapgrab: session authentication,    *)
(* folder and UID enumeration through a producer goroutine, the once type  *)
(* and the two-goroutine pipeline of streamingRetrieval.                   *)
(***************************************************************************)
EXTENDS Integers, Sequences, FiniteSets, TLC

VARIABLES
    \* ---- streamingRetrieval and the once type -------------------------
    uids,          \* argument uids []uid
    wg,            \* counter of the tracking wait group *wg
    wgBefore,      \* value of wg when streamingRetrieval was called
    startOpen,     \* startWg's counter is zero, startWg.Wait() returns
    interrupt,     \* what interrupted() returns
    mpc,           \* position of the streamingRetrieval call itself
    pc,            \* position of every goroutine that uses the once
    reg,           \* value of errCount a goroutine loaded for errCount++
    nret,          \* number of call() invocations that returned, per goroutine
    called,        \* once.called
    onceDone,      \* sync.Once's done flag
    onceMu,        \* holder of sync.Once's mutex, or "free"
    hookRuns,      \* number of times the wrapped hook (wg.Done) ran
    errCount,      \* the shared errCount
    plan,          \* raw results UidFetch still has to send on orgMessageChan
    fetchErr,      \* UidFetch ends with an error
    fetchCalls,    \* sequence sets UidFetch was called with
    orgClosed,     \* orgMessageChan was closed by UidFetch
    delivered,     \* raw results received from orgMessageChan, in order
    msg,           \* the translation goroutine's local msg
    out,           \* buffer of translatedMessageChan
    outClosed,     \* number of close(translatedMessageChan) executed
    sendOnClosed,  \* a send on translatedMessageChan happened after its close
    sent,          \* everything ever sent on translatedMessageChan, in order
    lateSends,     \* sends on translatedMessageChan made while interrupted()
                   \* already returned true
    cancelled,     \* "no", or when interrupted() returned true: "early" with
                   \* the completion signal not yet fired, "late" otherwise
    \* ---- authenticateClient / newImapClient ---------------------------
    config,        \* IMAPConfig
    apc,           \* position of authenticateClient
    dials,         \* connection attempts made by newImapClient
    logins,        \* number of Login calls
    session,       \* the imapClient returned, or "nil"
    aerr,          \* the error returned, or "nil"
    \* ---- getFolderList / getAllMessageUUIDs ---------------------------
    dop,           \* which of the two functions runs
    mbox,          \* *imap.MailboxStatus argument of getAllMessageUUIDs
    dplan,         \* entries List/Fetch still has to send
    dres,          \* error List/Fetch ends with, or "nil"
    dchan,         \* buffer of the channel mailboxes / messageChannel
    dclosed,       \* the channel was closed by List/Fetch
    derr,          \* the named result err, shared with the producer goroutine
    dacc,          \* folders / uids accumulated by the caller
    dppc,          \* position of the producer goroutine
    dcpc,          \* position of the caller
    dret,          \* what the caller returned
    dcalls,        \* number of List/Fetch calls issued
    dlisted        \* entries List/Fetch has sent on the channel, in order

onceState == <<called, onceDone, onceMu, hookRuns, wg>>
transport == <<plan, fetchErr, fetchCalls, orgClosed, delivered>>
output == <<out, outClosed, sendOnClosed, sent, lateSends>>
environment == <<startOpen, interrupt>>
retrVars == <<uids, wgBefore, mpc, pc, reg, nret, errCount, msg, cancelled,
              onceState, transport, output, environment>>
authVars == <<config, apc, dials, logins, session, aerr>>
drainVars == <<dop, mbox, dplan, dres, dchan, dclosed, derr, dacc, dppc,
               dcpc, dret, dcalls, dlisted>>
vars == <<retrVars, authVars, drainVars>>

\* ---- bounds of the model ---------------------------------------------
MaxUids == 2       \* longest uids argument
MaxNil == 1        \* most nil placeholders one transport call sends
MaxWg == 1         \* most other retrievals registered with wg
NCallers == 3      \* goroutines sharing one once
MaxCalls == 2      \* call() invocations per goroutine
MaxEntries == 2    \* most folders / messages one listing sends
NRetrievals == 3   \* retrievals launched together

\* ---- program constants -----------------------------------------------
folderListBuffer == 10
messageRetrievalBuffer == 20

\* ---- values ------------------------------------------------------------
IdValues == {-1, 0, 1, 2}
NilMsg == [Nil |-> TRUE]
Message(u) == [Uid |-> u]
NoErr == "nil"

RECURSIVE SeqsUpTo(_, _)
SeqsUpTo(S, n) ==
    IF n = 0 THEN {<<>>}
    ELSE LET shorter == SeqsUpTo(S, n - 1)
         IN  shorter \cup {Append(s, x) : s \in {t \in shorter : Len(t) = n - 1}, x \in S}

Range(s) == {s[i] : i \in 1..Len(s)}
NilsIn(s) == Cardinality({i \in 1..Len(s) : s[i] = NilMsg})
Distinct(s) == \A i, j \in 1..Len(s) : (i # j /\ s[i] # NilMsg) => s[i] # s[j]

\* What a transport call may send for the requested identifiers: at most one
\* message per identifier, plus nil placeholders.
Deliveries(ids) ==
    {s \in SeqsUpTo({Message(u) : u \in ids} \cup {NilMsg}, Cardinality(ids) + MaxNil) :
        Distinct(s) /\ NilsIn(s) <= MaxNil}

\* ======================================================================
\* type once (sync.Once plus the queryable flag called)
\* ======================================================================

\* Where a goroutine continues after already.call() returned.
AfterCall(c) ==
    IF c = "fetch" THEN "done" ELSE IF c = "trans" THEN "check" ELSE "idle"

Return(c) ==
    /\ pc' = [pc EXCEPT ![c] = AfterCall(c)]
    /\ nret' = [nret EXCEPT ![c] = @ + 1]

\* o.Do(o.hook), fast path: done is already set.
OnceLoad(c) ==
    /\ pc[c] = "once_load"
    /\ IF onceDone
       THEN Return(c)
       ELSE pc' = [pc EXCEPT ![c] = "once_lock"] /\ UNCHANGED nret
    /\ UNCHANGED <<uids, wgBefore, mpc, reg, errCount, msg, cancelled,
                   onceState, transport, output, environment>>
    /\ UNCHANGED <<authVars, drainVars>>

\* Variant of OnceLock that does not look at done again under the mutex.
OnceLockNoRecheck(c) ==
    /\ pc[c] = "once_lock"
    /\ onceMu = "free"
    /\ onceMu' = c
    /\ pc' = [pc EXCEPT ![c] = "once_called"]
    /\ UNCHANGED <<uids, wgBefore, mpc, reg, nret, errCount, msg, cancelled,
                   called, onceDone, hookRuns, wg, transport, output, environment>>
    /\ UNCHANGED <<authVars, drainVars>>

\* doSlow: take the mutex and look at done again.
OnceLock(c) ==
    /\ pc[c] = "once_lock"
    /\ onceMu = "free"
    /\ onceMu' = c
    /\ pc' = [pc EXCEPT ![c] = IF onceDone THEN "once_unlock" ELSE "once_called"]
    /\ UNCHANGED <<uids, wgBefore, mpc, reg, nret, errCount, msg, cancelled,
                   called, onceDone, hookRuns, wg, transport, output, environment>>
    /\ UNCHANGED <<authVars, drainVars>>

\* innerHook, first statement: o.called = true.
OnceSetCalled(c) ==
    /\ pc[c] = "once_called"
    /\ called' = TRUE
    /\ pc' = [pc EXCEPT ![c] = "once_hook"]
    /\ UNCHANGED <<uids, wgBefore, mpc, reg, nret, errCount, msg, cancelled,
                   onceDone, onceMu, hookRuns, wg, transport, output, environment>>
    /\ UNCHANGED <<authVars, drainVars>>

\* innerHook, second statement: hook(), which is wg.Done().
OnceHook(c) ==
    /\ pc[c] = "once_hook"
    /\ wg' = wg - 1
    /\ hookRuns' = hookRuns + 1
    /\ pc' = [pc EXCEPT ![c] = "once_unlock"]
    /\ UNCHANGED <<uids, wgBefore, mpc, reg, nret, errCount, msg, cancelled,
                   called, onceDone, onceMu, transport, output, environment>>
    /\ UNCHANGED <<authVars, drainVars>>

\* Variant of OnceUnlock that forgets done.Store(1).
OnceUnlockNoStore(c) ==
    /\ pc[c] = "once_unlock"
    /\ onceMu = c
    /\ onceMu' = "free"
    /\ Return(c)
    /\ UNCHANGED <<uids, wgBefore, mpc, reg, errCount, msg, cancelled,
                   called, onceDone, hookRuns, wg, transport, output, environment>>
    /\ UNCHANGED <<authVars, drainVars>>

\* Variant of OnceUnlock that forgets to release the mutex.
OnceUnlockKeepsMutex(c) ==
    /\ pc[c] = "once_unlock"
    /\ onceMu = c
    /\ onceDone' = TRUE
    /\ Return(c)
    /\ UNCHANGED <<uids, wgBefore, mpc, reg, errCount, msg, cancelled,
                   called, onceMu, hookRuns, wg, transport, output, environment>>
    /\ UNCHANGED <<authVars, drainVars>>

\* The deferred done.Store(1) and Unlock; call() returns.
OnceUnlock(c) ==
    /\ pc[c] = "once_unlock"
    /\ onceMu = c
    /\ onceDone' = TRUE
    /\ onceMu' = "free"
    /\ Return(c)
    /\ UNCHANGED <<uids, wgBefore, mpc, reg, errCount, msg, cancelled,
                   called, hookRuns, wg, transport, output, environment>>
    /\ UNCHANGED <<authVars, drainVars>>

\* ======================================================================
\* streamingRetrieval
\* ======================================================================

SeqSet(us) == Range(us)

\* Variant of streamingRetrieval whose validation tests uid < 0.
streamingRetrievalNegativeOnly ==
    /\ mpc = "start"
    /\ IF \E i \in 1..Len(uids) : uids[i] < 0
       THEN /\ mpc' = "rejected"
            /\ UNCHANGED <<wg, pc>>
       ELSE /\ mpc' = "returned"
            /\ wg' = wg + 1
            /\ pc' = [pc EXCEPT !["fetch"] = "wait", !["trans"] = "check"]
    /\ UNCHANGED <<uids, wgBefore, reg, nret, errCount, msg, cancelled,
                   called, onceDone, onceMu, hookRuns, transport, output, environment>>
    /\ UNCHANGED <<authVars, drainVars>>

\* The call itself: validation, wg.Add(1), newOnce, the two go statements.
streamingRetrieval ==
    /\ mpc = "start"
    /\ IF \E i \in 1..Len(uids) : uids[i] <= 0
       THEN /\ mpc' = "rejected"
            /\ UNCHANGED <<wg, pc>>
       ELSE /\ mpc' = "returned"
            /\ wg' = wg + 1
            /\ pc' = [pc EXCEPT !["fetch"] = "wait", !["trans"] = "check"]
    /\ UNCHANGED <<uids, wgBefore, reg, nret, errCount, msg, cancelled,
                   called, onceDone, onceMu, hookRuns, transport, output, environment>>
    /\ UNCHANGED <<authVars, drainVars>>

\* Fetch goroutine: startWg.Wait() returns and UidFetch is called.
FetchStart ==
    /\ pc["fetch"] = "wait"
    /\ startOpen
    /\ \E p \in Deliveries(SeqSet(uids)), e \in BOOLEAN :
          /\ plan' = p
          /\ fetchErr' = e
    /\ fetchCalls' = Append(fetchCalls, SeqSet(uids))
    /\ pc' = [pc EXCEPT !["fetch"] = "fetching"]
    /\ UNCHANGED <<uids, wgBefore, mpc, reg, nret, errCount, msg, cancelled,
                   onceState, orgClosed, delivered, output, environment>>
    /\ UNCHANGED <<authVars, drainVars>>

\* Variant of UidFetchReturn in which the error of UidFetch is not counted.
UidFetchReturnNoCount ==
    /\ pc["fetch"] = "fetching"
    /\ plan = <<>>
    /\ orgClosed' = TRUE
    /\ pc' = [pc EXCEPT !["fetch"] = "once_load"]
    /\ UNCHANGED <<uids, wgBefore, mpc, reg, nret, errCount, msg, cancelled,
                   onceState, plan, fetchErr, fetchCalls, delivered, output, environment>>
    /\ UNCHANGED <<authVars, drainVars>>

\* UidFetch has sent everything, closes orgMessageChan and returns.
UidFetchReturn ==
    /\ pc["fetch"] = "fetching"
    /\ plan = <<>>
    /\ orgClosed' = TRUE
    /\ pc' = [pc EXCEPT !["fetch"] = IF fetchErr THEN "inc_read" ELSE "once_load"]
    /\ UNCHANGED <<uids, wgBefore, mpc, reg, nret, errCount, msg, cancelled,
                   onceState, plan, fetchErr, fetchCalls, delivered, output, environment>>
    /\ UNCHANGED <<authVars, drainVars>>

\* errCount++ is a load followed by a store, in either goroutine.
IncRead(c) ==
    /\ pc[c] = "inc_read"
    /\ reg' = [reg EXCEPT ![c] = errCount]
    /\ pc' = [pc EXCEPT ![c] = "inc_write"]
    /\ UNCHANGED <<uids, wgBefore, mpc, nret, errCount, msg, cancelled,
                   onceState, transport, output, environment>>
    /\ UNCHANGED <<authVars, drainVars>>

IncWrite(c) ==
    /\ pc[c] = "inc_write"
    /\ errCount' = reg[c] + 1
    /\ pc' = [pc EXCEPT ![c] = "once_load"]
    /\ UNCHANGED <<uids, wgBefore, mpc, reg, nret, msg, cancelled,
                   onceState, transport, output, environment>>
    /\ UNCHANGED <<authVars, drainVars>>

\* Values the unsynchronised read of already.called can give: the write by
\* the other goroutine is not ordered before it until this goroutine has
\* itself gone through call().
CalledView == IF called /\ nret["trans"] = 0 THEN BOOLEAN ELSE {called}

\* Translation goroutine: the loop condition !already.called.
TransCheck ==
    /\ pc["trans"] = "check"
    /\ \E v \in CalledView :
          pc' = [pc EXCEPT !["trans"] = IF v THEN "close" ELSE "poll"]
    /\ UNCHANGED <<uids, wgBefore, mpc, reg, nret, errCount, msg, cancelled,
                   onceState, transport, output, environment>>
    /\ UNCHANGED <<authVars, drainVars>>

\* Variant of TransPoll that does not count the interruption.
TransPollNoCount ==
    /\ pc["trans"] = "poll"
    /\ IF interrupt
       THEN /\ cancelled' = IF called THEN "late" ELSE "early"
            /\ pc' = [pc EXCEPT !["trans"] = "once_load"]
       ELSE /\ pc' = [pc EXCEPT !["trans"] = "recv"]
            /\ UNCHANGED cancelled
    /\ UNCHANGED <<uids, wgBefore, mpc, reg, nret, errCount, msg,
                   onceState, transport, output, environment>>
    /\ UNCHANGED <<authVars, drainVars>>

\* Variant of TransPoll that closes the output channel in the interrupt
\* branch, in addition to the deferred close.
TransPollCloses ==
    /\ pc["trans"] = "poll"
    /\ IF interrupt
       THEN /\ cancelled' = IF called THEN "late" ELSE "early"
            /\ outClosed' = outClosed + 1
            /\ pc' = [pc EXCEPT !["trans"] = "inc_read"]
       ELSE /\ pc' = [pc EXCEPT !["trans"] = "recv"]
            /\ UNCHANGED <<cancelled, outClosed>>
    /\ UNCHANGED <<uids, wgBefore, mpc, reg, nret, errCount, msg,
                   onceState, transport, out, sendOnClosed, sent, lateSends, environment>>
    /\ UNCHANGED <<authVars, drainVars>>

\* Variant of TransPoll that leaves the loop on an interruption without
\* firing the completion signal.
TransPollBreaks ==
    /\ pc["trans"] = "poll"
    /\ IF interrupt
       THEN /\ cancelled' = IF called THEN "late" ELSE "early"
            /\ pc' = [pc EXCEPT !["trans"] = "close"]
       ELSE /\ pc' = [pc EXCEPT !["trans"] = "recv"]
            /\ UNCHANGED cancelled
    /\ UNCHANGED <<uids, wgBefore, mpc, reg, nret, errCount, msg,
                   onceState, transport, output, environment>>
    /\ UNCHANGED <<authVars, drainVars>>

\* if interrupted() { ... } else { ... }
TransPoll ==
    /\ pc["trans"] = "poll"
    /\ IF interrupt
       THEN /\ cancelled' = IF called THEN "late" ELSE "early"
            /\ pc' = [pc EXCEPT !["trans"] = "inc_read"]
       ELSE /\ pc' = [pc EXCEPT !["trans"] = "recv"]
            /\ UNCHANGED cancelled
    /\ UNCHANGED <<uids, wgBefore, mpc, reg, nret, errCount, msg,
                   onceState, transport, output, environment>>
    /\ UNCHANGED <<authVars, drainVars>>

\* Variant of TransRecv without the msg != nil test.
TransRecvNoNilCheck ==
    /\ pc["trans"] = "recv"
    /\ \/ /\ pc["fetch"] = "fetching"
          /\ plan # <<>>
          /\ msg' = Head(plan)
          /\ plan' = Tail(plan)
          /\ delivered' = Append(delivered, Head(plan))
       \/ /\ orgClosed
          /\ msg' = NilMsg
          /\ UNCHANGED <<plan, delivered>>
    /\ pc' = [pc EXCEPT !["trans"] = "send"]
    /\ UNCHANGED <<uids, wgBefore, mpc, reg, nret, errCount, cancelled,
                   onceState, fetchErr, fetchCalls, orgClosed, output, environment>>
    /\ UNCHANGED <<authVars, drainVars>>

\* msg := <-orgMessageChan on the unbuffered channel: a rendezvous with the
\* send inside UidFetch, or nil at once when the channel is closed.
TransRecv ==
    /\ pc["trans"] = "recv"
    /\ \/ /\ pc["fetch"] = "fetching"
          /\ plan # <<>>
          /\ msg' = Head(plan)
          /\ plan' = Tail(plan)
          /\ delivered' = Append(delivered, Head(plan))
       \/ /\ orgClosed
          /\ msg' = NilMsg
          /\ UNCHANGED <<plan, delivered>>
    /\ pc' = [pc EXCEPT !["trans"] = IF msg' # NilMsg THEN "send" ELSE "check"]
    /\ UNCHANGED <<uids, wgBefore, mpc, reg, nret, errCount, cancelled,
                   onceState, fetchErr, fetchCalls, orgClosed, output, environment>>
    /\ UNCHANGED <<authVars, drainVars>>

\* Variant of TransSend after which the goroutine receives again without
\* going through the loop condition and interrupted().
TransSendKeepsReceiving ==
    /\ pc["trans"] = "send"
    /\ Len(out) < messageRetrievalBuffer
    /\ out' = Append(out, msg)
    /\ sent' = Append(sent, msg)
    /\ sendOnClosed' = (sendOnClosed \/ outClosed > 0)
    /\ lateSends' = IF interrupt THEN lateSends + 1 ELSE lateSends
    /\ pc' = [pc EXCEPT !["trans"] = "recv"]
    /\ UNCHANGED <<uids, wgBefore, mpc, reg, nret, errCount, msg, cancelled,
                   onceState, transport, outClosed, environment>>
    /\ UNCHANGED <<authVars, drainVars>>

\* Variant of TransSend that hands the message over ahead of the ones
\* already waiting instead of behind them.
TransSendFront ==
    /\ pc["trans"] = "send"
    /\ Len(out) < messageRetrievalBuffer
    /\ out' = <<msg>> \o out
    /\ sent' = <<msg>> \o sent
    /\ sendOnClosed' = (sendOnClosed \/ outClosed > 0)
    /\ lateSends' = IF interrupt THEN lateSends + 1 ELSE lateSends
    /\ pc' = [pc EXCEPT !["trans"] = "check"]
    /\ UNCHANGED <<uids, wgBefore, mpc, reg, nret, errCount, msg, cancelled,
                   onceState, transport, outClosed, environment>>
    /\ UNCHANGED <<authVars, drainVars>>

\* Variant of TransSend that drops the message in hand when the completion
\* signal has fired in the meantime.
TransSendUnlessFired ==
    /\ pc["trans"] = "send"
    /\ Len(out) < messageRetrievalBuffer
    /\ IF called
       THEN UNCHANGED <<out, sent, sendOnClosed, lateSends>>
       ELSE /\ out' = Append(out, msg)
            /\ sent' = Append(sent, msg)
            /\ sendOnClosed' = (sendOnClosed \/ outClosed > 0)
            /\ lateSends' = IF interrupt THEN lateSends + 1 ELSE lateSends
    /\ pc' = [pc EXCEPT !["trans"] = "check"]
    /\ UNCHANGED <<uids, wgBefore, mpc, reg, nret, errCount, msg, cancelled,
                   onceState, transport, outClosed, environment>>
    /\ UNCHANGED <<authVars, drainVars>>

\* translatedMessageChan <- msg
TransSend ==
    /\ pc["trans"] = "send"
    /\ Len(out) < messageRetrievalBuffer
    /\ out' = Append(out, msg)
    /\ sent' = Append(sent, msg)
    /\ sendOnClosed' = (sendOnClosed \/ outClosed > 0)
    /\ lateSends' = IF interrupt THEN lateSends + 1 ELSE lateSends
    /\ pc' = [pc EXCEPT !["trans"] = "check"]
    /\ UNCHANGED <<uids, wgBefore, mpc, reg, nret, errCount, msg, cancelled,
                   onceState, transport, outClosed, environment>>
    /\ UNCHANGED <<authVars, drainVars>>

\* The loop is left: the deferred close(translatedMessageChan) runs.
TransClose ==
    /\ pc["trans"] = "close"
    /\ outClosed' = outClosed + 1
    /\ pc' = [pc EXCEPT !["trans"] = "done"]
    /\ UNCHANGED <<uids, wgBefore, mpc, reg, nret, errCount, msg, cancelled,
                   onceState, transport, out, sendOnClosed, sent, lateSends, environment>>
    /\ UNCHANGED <<authVars, drainVars>>

\* The caller of streamingRetrieval receives from the returned channel.
ConsumerRecv ==
    /\ out # <<>>
    /\ out' = Tail(out)
    /\ UNCHANGED <<uids, wgBefore, mpc, pc, reg, nret, errCount, msg, cancelled,
                   onceState, transport, outClosed, sendOnClosed, sent, lateSends, environment>>
    /\ UNCHANGED <<authVars, drainVars>>

\* The pipeline set-up is complete: startWg reaches zero.
ReleaseBarrier ==
    /\ mpc = "returned"
    /\ ~startOpen
    /\ startOpen' = TRUE
    /\ UNCHANGED <<uids, wgBefore, mpc, pc, reg, nret, errCount, msg, cancelled,
                   onceState, transport, output, interrupt>>
    /\ UNCHANGED <<authVars, drainVars>>

\* A keyboard interrupt arrives: interrupted() returns true from now on.
Interrupt ==
    /\ mpc = "returned"
    /\ ~interrupt
    /\ interrupt' = TRUE
    /\ UNCHANGED <<uids, wgBefore, mpc, pc, reg, nret, errCount, msg, cancelled,
                   onceState, transport, output, startOpen>>
    /\ UNCHANGED <<authVars, drainVars>>

RetrTasks == {"fetch", "trans"}

OnceInit ==
    /\ called = FALSE
    /\ onceDone = FALSE
    /\ onceMu = "free"
    /\ hookRuns = 0

AuthIdle ==
    /\ config = [Server |-> "", Port |-> 0, User |-> "", Password |-> "", Insecure |-> FALSE]
    /\ apc = "off"
    /\ dials = <<>>
    /\ logins = 0
    /\ session = "nil"
    /\ aerr = NoErr

DrainIdle ==
    /\ dop = "off"
    /\ mbox = [Messages |-> 0, UidValidity |-> 0]
    /\ dplan = <<>>
    /\ dres = NoErr
    /\ dchan = <<>>
    /\ dclosed = FALSE
    /\ derr = NoErr
    /\ dacc = <<>>
    /\ dppc = "off"
    /\ dcpc = "off"
    /\ dret = <<>>
    /\ dcalls = 0
    /\ dlisted = <<>>

RetrInit ==
    /\ uids \in SeqsUpTo(IdValues, MaxUids)
    /\ wg \in 0..MaxWg
    /\ wgBefore = wg
    /\ startOpen = FALSE
    /\ interrupt = FALSE
    /\ mpc = "start"
    /\ pc = [c \in RetrTasks |-> "off"]
    /\ reg = [c \in RetrTasks |-> 0]
    /\ nret = [c \in RetrTasks |-> 0]
    /\ OnceInit
    /\ errCount = 0
    /\ plan = <<>>
    /\ fetchErr = FALSE
    /\ fetchCalls = <<>>
    /\ orgClosed = FALSE
    /\ delivered = <<>>
    /\ msg = NilMsg
    /\ out = <<>>
    /\ outClosed = 0
    /\ sendOnClosed = FALSE
    /\ sent = <<>>
    /\ lateSends = 0
    /\ cancelled = "no"

Init == RetrInit /\ AuthIdle /\ DrainIdle

Next ==
    \/ streamingRetrieval
    \/ FetchStart
    \/ UidFetchReturn
    \/ \E c \in RetrTasks : IncRead(c)
    \/ \E c \in RetrTasks : IncWrite(c)
    \/ \E c \in RetrTasks : OnceLoad(c)
    \/ \E c \in RetrTasks : OnceLock(c)
    \/ \E c \in RetrTasks : OnceSetCalled(c)
    \/ \E c \in RetrTasks : OnceHook(c)
    \/ \E c \in RetrTasks : OnceUnlock(c)
    \/ TransCheck
    \/ TransPoll
    \/ TransRecv
    \/ TransSend
    \/ TransClose
    \/ ConsumerRecv
    \/ ReleaseBarrier
    \/ Interrupt

Spec == Init /\ [][Next]_vars

\* The steps of the fetch goroutine; its send on orgMessageChan is the
\* rendezvous half of TransRecv.
FetchTask ==
    \/ FetchStart
    \/ UidFetchReturn
    \/ (TransRecv /\ plan' # plan)
    \/ IncRead("fetch")
    \/ IncWrite("fetch")
    \/ OnceLoad("fetch")
    \/ OnceLock("fetch")
    \/ OnceSetCalled("fetch")
    \/ OnceHook("fetch")
    \/ OnceUnlock("fetch")

\* The steps of the translation goroutine.
TransTask ==
    \/ TransCheck
    \/ TransPoll
    \/ TransRecv
    \/ TransSend
    \/ TransClose
    \/ IncRead("trans")
    \/ IncWrite("trans")
    \/ OnceLoad("trans")
    \/ OnceLock("trans")
    \/ OnceSetCalled("trans")
    \/ OnceHook("trans")
    \/ OnceUnlock("trans")

\* The loop condition reads already.called as true and the loop is left.
TransExitLoop == TransCheck /\ pc'["trans"] = "close"

\* Scheduling: every goroutine that can run eventually does, the
\* set-up barrier is released, the consumer keeps receiving, and a write of
\* already.called becomes visible to the polling goroutine. Interrupt is
\* left free: it may come at any time or never.
Fairness ==
    /\ WF_vars(streamingRetrieval)
    /\ WF_vars(ReleaseBarrier)
    /\ WF_vars(FetchTask)
    /\ WF_vars(TransTask)
    /\ WF_vars(ConsumerRecv)
    /\ SF_vars(TransExitLoop)

SpecFair == Init /\ [][Next]_vars /\ Fairness

\* ======================================================================
\* The once type on its own: any number of goroutines calling call()
\* ======================================================================

Callers == {"g" \o ToString(i) : i \in 1..NCallers}

\* A goroutine invokes o.call().
CallerInvoke(c) ==
    /\ pc[c] = "idle"
    /\ nret[c] < MaxCalls
    /\ pc' = [pc EXCEPT ![c] = "once_load"]
    /\ UNCHANGED <<uids, wgBefore, mpc, reg, nret, errCount, msg, cancelled,
                   onceState, transport, output, environment>>
    /\ UNCHANGED <<authVars, drainVars>>

RetrIdle ==
    /\ uids = <<>>
    /\ startOpen = FALSE
    /\ interrupt = FALSE
    /\ mpc = "off"
    /\ errCount = 0
    /\ plan = <<>>
    /\ fetchErr = FALSE
    /\ fetchCalls = <<>>
    /\ orgClosed = FALSE
    /\ delivered = <<>>
    /\ msg = NilMsg
    /\ out = <<>>
    /\ outClosed = 0
    /\ sendOnClosed = FALSE
    /\ sent = <<>>
    /\ lateSends = 0
    /\ cancelled = "no"

\* wg.Add(1) was done and newOnce(func() { wg.Done() }) built the once.
OnceSpecInit ==
    /\ RetrIdle
    /\ wgBefore \in 0..MaxWg
    /\ wg = wgBefore + 1
    /\ pc = [c \in Callers |-> "idle"]
    /\ reg = [c \in Callers |-> 0]
    /\ nret = [c \in Callers |-> 0]
    /\ OnceInit
    /\ AuthIdle
    /\ DrainIdle

OnceNext ==
    \/ \E c \in Callers : CallerInvoke(c)
    \/ \E c \in Callers : OnceLoad(c)
    \/ \E c \in Callers : OnceLock(c)
    \/ \E c \in Callers : OnceSetCalled(c)
    \/ \E c \in Callers : OnceHook(c)
    \/ \E c \in Callers : OnceUnlock(c)

SpecOnce == OnceSpecInit /\ [][OnceNext]_vars

\* ======================================================================
\* Several retrievals launched against one wg and one startWg
\* ======================================================================

Retrievals == 1..NRetrievals

\* The sequence set retrieval r asks for.
RequestOf(r) == {r}

\* streamingRetrieval for retrieval r: wg.Add(1) and the go statements; the
\* fetch goroutine starts in startWg.Wait().
Launch(r) ==
    /\ pc[r] = "off"
    /\ wg' = wg + 1
    /\ pc' = [pc EXCEPT ![r] = "wait"]
    /\ UNCHANGED <<uids, wgBefore, mpc, reg, nret, errCount, msg, cancelled,
                   called, onceDone, onceMu, hookRuns, transport, output, environment>>
    /\ UNCHANGED <<authVars, drainVars>>

\* The launcher releases startWg once every launch has returned.
ReleaseAfterLaunches ==
    /\ ~startOpen
    /\ \A r \in Retrievals : pc[r] # "off"
    /\ startOpen' = TRUE
    /\ UNCHANGED <<uids, wgBefore, mpc, pc, reg, nret, errCount, msg, cancelled,
                   onceState, transport, output, interrupt>>
    /\ UNCHANGED <<authVars, drainVars>>

\* Variant of FetchIssue without startWg.Wait().
FetchIssueNoWait(r) ==
    /\ pc[r] = "wait"
    /\ fetchCalls' = Append(fetchCalls, RequestOf(r))
    /\ pc' = [pc EXCEPT ![r] = "fetching"]
    /\ UNCHANGED <<uids, wgBefore, mpc, reg, nret, errCount, msg, cancelled,
                   onceState, plan, fetchErr, orgClosed, delivered, output, environment>>
    /\ UNCHANGED <<authVars, drainVars>>

\* The fetch goroutine of retrieval r: startWg.Wait() returns, UidFetch is
\* called.
FetchIssue(r) ==
    /\ pc[r] = "wait"
    /\ startOpen
    /\ fetchCalls' = Append(fetchCalls, RequestOf(r))
    /\ pc' = [pc EXCEPT ![r] = "fetching"]
    /\ UNCHANGED <<uids, wgBefore, mpc, reg, nret, errCount, msg, cancelled,
                   onceState, plan, fetchErr, orgClosed, delivered, output, environment>>
    /\ UNCHANGED <<authVars, drainVars>>

\* Retrieval r completes: its once runs wg.Done().
FetchFinish(r) ==
    /\ pc[r] = "fetching"
    /\ wg' = wg - 1
    /\ pc' = [pc EXCEPT ![r] = "done"]
    /\ UNCHANGED <<uids, wgBefore, mpc, reg, nret, errCount, msg, cancelled,
                   called, onceDone, onceMu, hookRuns, transport, output, environment>>
    /\ UNCHANGED <<authVars, drainVars>>

BarrierInit ==
    /\ RetrIdle
    /\ wgBefore \in 0..MaxWg
    /\ wg = wgBefore
    /\ pc = [r \in Retrievals |-> "off"]
    /\ reg = [r \in Retrievals |-> 0]
    /\ nret = [r \in Retrievals |-> 0]
    /\ OnceInit
    /\ AuthIdle
    /\ DrainIdle

BarrierNext ==
    \/ \E r \in Retrievals : Launch(r)
    \/ ReleaseAfterLaunches
    \/ \E r \in Retrievals : FetchIssue(r)
    \/ \E r \in Retrievals : FetchFinish(r)

SpecBarrier == BarrierInit /\ [][BarrierNext]_vars

\* ======================================================================
\* newImapClient and authenticateClient
\* ======================================================================

Servers == {"127.0.0.1", "127.0.0.10", "203.0.113.5", "localhost", "[::1]"}
Ports == {143, 993}
Passwords == {"", "secret"}

Digit(d) == SubSeq("0123456789", d + 1, d + 1)

\* fmt's %d verb.
RECURSIVE FormatInt(_)
FormatInt(n) ==
    IF n < 0 THEN "-" \o FormatInt(-n)
    ELSE IF n < 10 THEN Digit(n)
    ELSE FormatInt(n \div 10) \o Digit(n % 10)

\* fmt.Sprintf("%s:%d", config.Server, config.Port)
serverWithPort(cfg) == cfg.Server \o ":" \o FormatInt(cfg.Port)

\* strings.HasPrefix
HasPrefix(str, prefix) ==
    /\ Len(str) >= Len(prefix)
    /\ SubSeq(str, 1, Len(prefix)) = prefix

\* Variant of newImapClient that tests the prefix without the colon.
newImapClientLoosePrefix(addr, insecure) ==
    IF ~insecure THEN "DialTLS"
    ELSE IF ~HasPrefix(addr, "127.0.0.1") THEN "refused"
    ELSE "Dial"

\* newImapClient: which connection it attempts, or "refused" when it returns
\* its own error without attempting one.
newImapClient(addr, insecure) ==
    IF ~insecure THEN "DialTLS"
    ELSE IF ~HasPrefix(addr, "127.0.0.1:") THEN "refused"
    ELSE "Dial"

\* Variant of AuthCheckPassword without the empty-password test.
AuthCheckPasswordNone ==
    /\ apc = "start"
    /\ apc' = "connect"
    /\ UNCHANGED <<config, dials, logins, session, aerr>>
    /\ UNCHANGED <<retrVars, drainVars>>

\* authenticateClient: the empty-password test.
AuthCheckPassword ==
    /\ apc = "start"
    /\ IF Len(config.Password) = 0
       THEN /\ aerr' = "password not set"
            /\ apc' = "returned"
       ELSE /\ apc' = "connect"
            /\ UNCHANGED aerr
    /\ UNCHANGED <<config, dials, logins, session>>
    /\ UNCHANGED <<retrVars, drainVars>>

\* Variant of AuthConnect that logs a failed dial and goes on to Login.
AuthConnectIgnoresError ==
    /\ apc = "connect"
    /\ LET addr == serverWithPort(config)
           kind == newImapClient(addr, config.Insecure)
       IN  IF kind = "refused"
           THEN /\ aerr' = "insecure auth refused"
                /\ apc' = "returned"
                /\ UNCHANGED dials
           ELSE /\ dials' = Append(dials, [kind |-> kind, addr |-> addr])
                /\ apc' = "login"
                /\ \E ok \in BOOLEAN :
                      IF ok THEN UNCHANGED aerr ELSE aerr' = "connect failed"
    /\ UNCHANGED <<config, logins, session>>
    /\ UNCHANGED <<retrVars, drainVars>>

\* authenticateClient: the call of newImapClient, whose dial succeeds or fails.
AuthConnect ==
    /\ apc = "connect"
    /\ LET addr == serverWithPort(config)
           kind == newImapClient(addr, config.Insecure)
       IN  IF kind = "refused"
           THEN /\ aerr' = "insecure auth refused"
                /\ apc' = "returned"
                /\ UNCHANGED dials
           ELSE /\ dials' = Append(dials, [kind |-> kind, addr |-> addr])
                /\ \E ok \in BOOLEAN :
                      IF ok
                      THEN apc' = "login" /\ UNCHANGED aerr
                      ELSE apc' = "returned" /\ aerr' = "connect failed"
    /\ UNCHANGED <<config, logins, session>>
    /\ UNCHANGED <<retrVars, drainVars>>

\* authenticateClient: imapClient.Login and the return.
AuthLogin ==
    /\ apc = "login"
    /\ logins' = logins + 1
    /\ \E ok \in BOOLEAN :
          IF ok
          THEN session' = "imapClient" /\ UNCHANGED aerr
          ELSE aerr' = "login failed" /\ UNCHANGED session
    /\ apc' = "returned"
    /\ UNCHANGED <<config, dials>>
    /\ UNCHANGED <<retrVars, drainVars>>

AuthInit ==
    /\ config \in [Server : Servers, Port : Ports, User : {"user"},
                   Password : Passwords, Insecure : BOOLEAN]
    /\ apc = "start"
    /\ dials = <<>>
    /\ logins = 0
    /\ session = "nil"
    /\ aerr = NoErr

AuthSpecInit ==
    /\ AuthInit
    /\ RetrIdle
    /\ wg = 0
    /\ wgBefore = 0
    /\ pc = [c \in RetrTasks |-> "off"]
    /\ reg = [c \in RetrTasks |-> 0]
    /\ nret = [c \in RetrTasks |-> 0]
    /\ OnceInit
    /\ DrainIdle

AuthNext ==
    \/ AuthCheckPassword
    \/ AuthConnect
    \/ AuthLogin

SpecAuth == AuthSpecInit /\ [][AuthNext]_vars

\* ======================================================================
\* getFolderList and getAllMessageUUIDs
\* ======================================================================

FolderNames == {"INBOX", "Sent"}
ValidityMarkers == {7, 42}
ProtocolErrors == {NoErr, "protocol error"}
MailboxInfo(n) == [Name |-> n]
uidExt(f, m) == [folder |-> f, msg |-> m]
Returned(v, e) == [val |-> v, err |-> e]

Capacity == IF dop = "list" THEN folderListBuffer ELSE messageRetrievalBuffer

\* What List / Fetch may send on the channel it is given.
Listing ==
    IF dop = "list"
    THEN SeqsUpTo({MailboxInfo(n) : n \in FolderNames}, MaxEntries)
    ELSE Deliveries(1..mbox.Messages)

\* getFolderList up to its go statement.
getFolderList ==
    /\ dop = "list"
    /\ dcpc = "start"
    /\ dppc' = "call"
    /\ dcpc' = "range"
    /\ UNCHANGED <<dop, mbox, dlisted, dplan, dres, dchan, dclosed, derr, dacc, dret, dcalls>>
    /\ UNCHANGED <<retrVars, authVars>>

\* Variant of getAllMessageUUIDs without the early return for empty folders.
getAllMessageUUIDsNoEarlyReturn ==
    /\ dop = "enum"
    /\ dcpc = "start"
    /\ dppc' = "call"
    /\ dcpc' = "range"
    /\ UNCHANGED <<dop, mbox, dlisted, dplan, dres, dchan, dclosed, derr, dacc, dret, dcalls>>
    /\ UNCHANGED <<retrVars, authVars>>

\* getAllMessageUUIDs up to its go statement, or its early return.
getAllMessageUUIDs ==
    /\ dop = "enum"
    /\ dcpc = "start"
    /\ IF mbox.Messages = 0
       THEN /\ dret' = Returned(<<>>, NoErr)
            /\ dcpc' = "returned"
            /\ UNCHANGED dppc
       ELSE /\ dppc' = "call"
            /\ dcpc' = "range"
            /\ UNCHANGED dret
    /\ UNCHANGED <<dop, mbox, dlisted, dplan, dres, dchan, dclosed, derr, dacc, dcalls>>
    /\ UNCHANGED <<retrVars, authVars>>

\* The producer goroutine calls imapClient.List / imapClient.Fetch.
ProducerCall ==
    /\ dppc = "call"
    /\ dcalls' = dcalls + 1
    /\ dplan' \in Listing
    /\ dres' \in ProtocolErrors
    /\ dppc' = "sending"
    /\ UNCHANGED <<dop, mbox, dlisted, dchan, dclosed, derr, dacc, dcpc, dret>>
    /\ UNCHANGED <<retrVars, authVars>>

\* List / Fetch sends one entry on the buffered channel.
ProducerSend ==
    /\ dppc = "sending"
    /\ dplan # <<>>
    /\ Len(dchan) < Capacity
    /\ dchan' = Append(dchan, Head(dplan))
    /\ dlisted' = Append(dlisted, Head(dplan))
    /\ dplan' = Tail(dplan)
    /\ UNCHANGED <<dop, mbox, dres, dclosed, derr, dacc, dppc, dcpc, dret, dcalls>>
    /\ UNCHANGED <<retrVars, authVars>>

\* List / Fetch closes the channel and returns.
ProducerClose ==
    /\ dppc = "sending"
    /\ dplan = <<>>
    /\ dclosed' = TRUE
    /\ dppc' = "store"
    /\ UNCHANGED <<dop, mbox, dlisted, dplan, dres, dchan, derr, dacc, dcpc, dret, dcalls>>
    /\ UNCHANGED <<retrVars, authVars>>

\* The goroutine's assignment err = <result of List / Fetch>.
ProducerStore ==
    /\ dppc = "store"
    /\ derr' = dres
    /\ dppc' = "done"
    /\ UNCHANGED <<dop, mbox, dlisted, dplan, dres, dchan, dclosed, dacc, dcpc, dret, dcalls>>
    /\ UNCHANGED <<retrVars, authVars>>

\* Variant of CallerRecv that fills the two fields of uidExt the wrong way
\* round.
CallerRecvSwapped ==
    /\ dcpc = "range"
    /\ dchan # <<>>
    /\ LET m == Head(dchan)
       IN  dacc' = IF dop = "list" THEN Append(dacc, m.Name)
                   ELSE IF m # NilMsg
                        THEN Append(dacc, uidExt(m.Uid, mbox.UidValidity))
                        ELSE dacc
    /\ dchan' = Tail(dchan)
    /\ UNCHANGED <<dop, mbox, dlisted, dplan, dres, dclosed, derr, dppc, dcpc, dret, dcalls>>
    /\ UNCHANGED <<retrVars, authVars>>

\* One iteration of the caller's range loop.
CallerRecv ==
    /\ dcpc = "range"
    /\ dchan # <<>>
    /\ LET m == Head(dchan)
       IN  dacc' = IF dop = "list" THEN Append(dacc, m.Name)
                   ELSE IF m # NilMsg
                        THEN Append(dacc, uidExt(mbox.UidValidity, m.Uid))
                        ELSE dacc
    /\ dchan' = Tail(dchan)
    /\ UNCHANGED <<dop, mbox, dlisted, dplan, dres, dclosed, derr, dppc, dcpc, dret, dcalls>>
    /\ UNCHANGED <<retrVars, authVars>>

\* The range loop ends on the closed, drained channel: return folders, err.
CallerReturn ==
    /\ dcpc = "range"
    /\ dchan = <<>>
    /\ dclosed
    /\ dret' = Returned(dacc, derr)
    /\ dcpc' = "returned"
    /\ UNCHANGED <<dop, mbox, dlisted, dplan, dres, dchan, dclosed, derr, dacc, dppc, dcalls>>
    /\ UNCHANGED <<retrVars, authVars>>

DrainInit ==
    /\ dop \in {"list", "enum"}
    /\ mbox \in [Messages : 0..MaxEntries, UidValidity : ValidityMarkers]
    /\ dop = "list" => mbox = [Messages |-> 0, UidValidity |-> 7]
    /\ dplan = <<>>
    /\ dres = NoErr
    /\ dchan = <<>>
    /\ dclosed = FALSE
    /\ derr = NoErr
    /\ dacc = <<>>
    /\ dppc = "off"
    /\ dcpc = "start"
    /\ dret = <<>>
    /\ dcalls = 0
    /\ dlisted = <<>>

DrainSpecInit ==
    /\ DrainInit
    /\ RetrIdle
    /\ wg = 0
    /\ wgBefore = 0
    /\ pc = [c \in RetrTasks |-> "off"]
    /\ reg = [c \in RetrTasks |-> 0]
    /\ nret = [c \in RetrTasks |-> 0]
    /\ OnceInit
    /\ AuthIdle

DrainNext ==
    \/ getFolderList
    \/ getAllMessageUUIDs
    \/ ProducerCall
    \/ ProducerSend
    \/ ProducerClose
    \/ ProducerStore
    \/ CallerRecv
    \/ CallerReturn

SpecDrain == DrainSpecInit /\ [][DrainNext]_vars

\* ======================================================================
\* Claims
\* ======================================================================

HasZeroOrNegative == \E i \in 1..Len(uids) : uids[i] <= 0
NoDuplicates(s) == \A i, j \in 1..Len(s) : i # j => s[i] # s[j]

\* C1: the tracking wait group, incremented once by the call, is decremented
\* exactly once per retrieval: wg.Done never runs twice, wg never falls below
\* the value it had before the call, and as soon as one call() of either
\* goroutine has returned the single decrement has happened.
C1_WaitGroupDoneOnce ==
    /\ hookRuns <= 1
    /\ wg >= wgBefore
    /\ mpc = "returned" => wg = wgBefore + 1 - hookRuns
    /\ (\E c \in RetrTasks : nret[c] > 0) => (hookRuns = 1 /\ wg = wgBefore)

\* Both goroutines went through call(), the fetch one after a protocol error,
\* the translation one after a cancellation.
C1_Witness ==
    /\ nret["fetch"] = 1
    /\ nret["trans"] = 1
    /\ fetchErr
    /\ cancelled = "early"
    /\ hookRuns = 1
    /\ wg = wgBefore

\* C2 as claimed: after a cancellation seen while the completion signal had
\* not fired, the output channel is closed, the wrapped action ran exactly
\* once and the error count is exactly 1 more than before the retrieval.
C2_Original ==
    (cancelled = "early" /\ pc["trans"] = "done") =>
        (outClosed = 1 /\ hookRuns = 1 /\ errCount = 1)

\* C2 amended: after such a cancellation the output channel is closed, the
\* wrapped action ran exactly once, and the error count is 1 or 2; it is 2
\* only when UidFetch also ended with a protocol error.
C2_CancelCounted ==
    (cancelled = "early" /\ pc["trans"] = "done") =>
        /\ outClosed = 1
        /\ hookRuns = 1
        /\ errCount \in {1, 2}
        /\ errCount = 2 => (fetchErr /\ orgClosed)

\* A cancelled retrieval that closed its output, whose fetch also failed,
\* with both increments counted.
C2_Witness ==
    /\ cancelled = "early"
    /\ pc["trans"] = "done"
    /\ pc["fetch"] = "done"
    /\ outClosed = 1
    /\ errCount = 2

C6_OutputBounded ==
    mpc = "returned" =>
        /\ Len(sent) <= Len(uids)
        /\ NoDuplicates(sent)
        /\ Range(sent) \subseteq Range(delivered)
        /\ NilMsg \notin Range(sent)
        /\ \A i \in 1..Len(sent) : sent[i].Uid \in Range(uids)

\* Two identifiers were asked for, the transport delivered both and a nil
\* placeholder, and both messages went out.
C6_Witness ==
    /\ Len(uids) = 2
    /\ Len(sent) = 2
    /\ NilMsg \in Range(delivered)

\* C7: the output channel is closed exactly once when the translation
\* goroutine exits, not before, and nothing is sent on it after the close.
C7_ClosedOnce ==
    /\ outClosed <= 1
    /\ ~sendOnClosed
    /\ (outClosed = 1) <=> (pc["trans"] = "done")

\* The translation goroutine left its loop because the fetch goroutine fired
\* the completion signal, after forwarding a message.
C7_Witness ==
    /\ pc["trans"] = "done"
    /\ cancelled = "no"
    /\ outClosed = 1
    /\ sent # <<>>

AnyReturned == \E c \in DOMAIN nret : nret[c] > 0

\* C3: however many goroutines call call(), however often, the wrapped
\* action runs exactly once; once a call() has returned, called is true; and
\* called never goes back to false.
C3_OnceFiresOnce ==
    /\ [](hookRuns <= 1 /\ (AnyReturned => (called /\ hookRuns = 1)))
    /\ [][called => called']_vars

\* Every goroutine has made all its calls and the action ran once.
C3_Witness ==
    /\ DOMAIN nret = Callers
    /\ \A c \in Callers : nret[c] = MaxCalls
    /\ hookRuns = 1
    /\ called

\* The host part of an address: what precedes its first colon.
RECURSIVE HostOf(_)
HostOf(addr) ==
    IF addr = "" \/ SubSeq(addr, 1, 1) = ":" THEN ""
    ELSE SubSeq(addr, 1, 1) \o HostOf(SubSeq(addr, 2, Len(addr)))

\* C4 as claimed: when List / Fetch ended with an error, the caller, having
\* drained the channel, returns that error with the entries received.
C4_ProducerErrorReturned ==
    (dcpc = "returned" /\ dcalls > 0 /\ dres # NoErr) =>
        (dret.err = dres /\ dret.val = dacc)

\* C8: with an empty password authenticateClient fails without contacting
\* the server: no connection attempt, no Login, no session returned.
C8_EmptyPasswordFailsFast ==
    Len(config.Password) = 0 =>
        /\ apc \in {"off", "start", "returned"}
        /\ dials = <<>>
        /\ logins = 0
        /\ session = "nil"
        /\ apc = "returned" => aerr # NoErr

\* authenticateClient returned for a configuration with an empty password.
C8_Witness ==
    /\ apc = "returned"
    /\ config.Password = ""
    /\ aerr = "password not set"

ConstructorRan == apc \in {"login", "returned"} /\ Len(config.Password) > 0

\* C9: an insecure connection is refused before any connection attempt
\* unless the address's host is 127.0.0.1, for which a plain connection is
\* attempted; a secure connection is attempted whatever the host.
C9_InsecureOnlyLoopback ==
    ConstructorRan =>
        LET addr == serverWithPort(config)
        IN  IF ~config.Insecure
            THEN dials = <<[kind |-> "DialTLS", addr |-> addr]>>
            ELSE IF HostOf(addr) # "127.0.0.1"
            THEN /\ dials = <<>>
                 /\ logins = 0
                 /\ apc = "returned"
                 /\ aerr = "insecure auth refused"
                 /\ session = "nil"
            ELSE dials = <<[kind |-> "Dial", addr |-> addr]>>

\* An insecure connection to 127.0.0.10:143, whose text starts with
\* 127.0.0.1, was refused.
C9_Witness ==
    /\ ConstructorRan
    /\ config.Insecure
    /\ serverWithPort(config) = "127.0.0.10:143"
    /\ aerr = "insecure auth refused"

\* C10: for a mailbox status with no messages getAllMessageUUIDs returns an
\* empty sequence and no error, never calls Fetch and starts no producer.
C10_EmptyMailboxNoFetch ==
    (dop = "enum" /\ mbox.Messages = 0) =>
        /\ dcalls = 0
        /\ dppc = "off"
        /\ dcpc \in {"start", "returned"}
        /\ dcpc = "returned" => dret = Returned(<<>>, NoErr)

\* getAllMessageUUIDs returned for an empty mailbox.
C10_Witness ==
    /\ dop = "enum"
    /\ mbox.Messages = 0
    /\ dcpc = "returned"
    /\ dret = Returned(<<>>, NoErr)

\* The identifiers getAllMessageUUIDs owes for a sequence of transport
\* entries: one per non-nil entry, in order.
RECURSIVE ExtendedIds(_, _)
ExtendedIds(marker, entries) ==
    IF entries = <<>> THEN <<>>
    ELSE IF Head(entries) = NilMsg THEN ExtendedIds(marker, Tail(entries))
    ELSE <<[folder |-> marker, msg |-> Head(entries).Uid]>>
             \o ExtendedIds(marker, Tail(entries))

\* C11: for a mailbox with messages getAllMessageUUIDs returns exactly one
\* {folder: validity marker, msg: entry id} per non-nil entry the transport
\* delivered, in delivery order, nothing for nil entries, and a nil entry is
\* no error: an error is returned only when Fetch ended with one.
C11_OneIdPerEntry ==
    (dop = "enum" /\ mbox.Messages > 0 /\ dcpc = "returned") =>
        /\ dplan = <<>>
        /\ dret.val = ExtendedIds(mbox.UidValidity, dlisted)
        /\ dret.err # NoErr => dres # NoErr

\* Validity marker 42, entries 1 and 2 delivered with a nil placeholder
\* among them, and 42/1 and 42/2 returned without error.
C11_Witness ==
    /\ dop = "enum"
    /\ dcpc = "returned"
    /\ mbox.UidValidity = 42
    /\ NilMsg \in Range(dlisted)
    /\ dret = Returned(<<uidExt(42, 1), uidExt(42, 2)>>, NoErr)

\* The non-nil entries of a sequence of raw results, in order.
RECURSIVE NonNil(_)
NonNil(s) ==
    IF s = <<>> THEN <<>>
    ELSE IF Head(s) = NilMsg THEN NonNil(Tail(s))
    ELSE <<Head(s)>> \o NonNil(Tail(s))

\* s can be obtained from t by leaving entries out.
RECURSIVE IsSubsequence(_, _)
IsSubsequence(s, t) ==
    IF s = <<>> THEN TRUE
    ELSE IF t = <<>> THEN FALSE
    ELSE IF Head(s) = Head(t) THEN IsSubsequence(Tail(s), Tail(t))
    ELSE IsSubsequence(s, Tail(t))

\* C12 as claimed: once the translation goroutine has seen the
\* cancellation it no longer receives from orgMessageChan, and when it has
\* exited the fetch goroutine, once past the barrier, has fired the
\* completion signal as a no-op or can still take a step towards doing so.
C12_FetchStillFires ==
    /\ cancelled # "no" => pc["trans"] \notin {"poll", "recv", "send"}
    /\ (cancelled # "no" /\ pc["trans"] = "done" /\ startOpen) =>
           /\ hookRuns = 1
           /\ pc["fetch"] = "done" \/ ENABLED FetchTask

\* C13: once interrupted() returns true, the translation goroutine forwards
\* at most one more message before it stops, and what it forwards are raw
\* results of the transport, each once.
C13_AtMostOneLateMessage ==
    /\ lateSends <= 1
    /\ NoDuplicates(sent)
    /\ Range(sent) \subseteq Range(delivered)

\* The goroutine stopped on the cancellation after forwarding one message
\* that it sent when the interrupt had already arrived.
C13_Witness ==
    /\ lateSends = 1
    /\ cancelled = "early"
    /\ pc["trans"] = "done"
    /\ plan # <<>>

\* C14: in a retrieval that is not cancelled and whose UidFetch ends with a
\* protocol error, the error count is 1 whenever the output channel is closed.
C14_ErrorCountedBeforeClose ==
    (cancelled = "no" /\ fetchErr /\ outClosed >= 1) => errCount = 1

\* UidFetch failed after delivering a message, nothing was cancelled and the
\* output channel is closed.
C14_Witness ==
    /\ cancelled = "no"
    /\ ~interrupt
    /\ fetchErr
    /\ outClosed = 1
    /\ sent # <<>>
    /\ errCount = 1

\* C16: what is sent on the output channel is a subsequence of the raw
\* results received from the transport, in the same relative order.
C16_OutputFollowsDelivery ==
    /\ IsSubsequence(sent, delivered)
    /\ IsSubsequence(out, sent)

\* Identifiers 1, 2 were asked for; the transport delivered 2, nil, 1 and the
\* output carries 2 then 1.
C16_Witness ==
    /\ uids = <<1, 2>>
    /\ delivered = <<Message(2), NilMsg, Message(1)>>
    /\ sent = <<Message(2), Message(1)>>

\* C18: in a retrieval that is never cancelled, when the output channel is
\* closed every non-nil raw result the transport produced was sent on it.
C18_NoMessageLost ==
    (cancelled = "no" /\ outClosed >= 1) =>
        /\ plan = <<>>
        /\ sent = NonNil(delivered)

\* An uncancelled retrieval of two messages closed its output with both on it.
C18_Witness ==
    /\ cancelled = "no"
    /\ outClosed = 1
    /\ Len(sent) = 2
    /\ Len(delivered) = 3

\* C20: whenever the output channel is closed or wg.Done has run for this
\* retrieval, once.called is true.
C20_CalledIsTheTruth ==
    (outClosed >= 1 \/ hookRuns >= 1 \/ (mpc = "returned" /\ wg <= wgBefore)) => called

\* The output channel is closed and wg.Done has run, without cancellation.
C20_Witness ==
    /\ outClosed = 1
    /\ hookRuns = 1
    /\ cancelled = "no"
    /\ called

\* C17: authenticateClient calls Login only after newImapClient succeeded,
\* returns a session only after Login succeeded, and returns no session on
\* any failure (empty password, refused or failed connection, failed login).
C17_LoginAfterConnect ==
    /\ logins <= 1
    /\ logins = 1 =>
           /\ Len(dials) = 1
           /\ Len(config.Password) > 0
           /\ aerr \in {NoErr, "login failed"}
    /\ session # "nil" =>
           /\ apc = "returned"
           /\ logins = 1
           /\ aerr = NoErr
    /\ apc = "returned" => (aerr # NoErr) # (session # "nil")

\* A session was returned after a plain connection to the loopback address
\* and one successful Login.
C17_Witness ==
    /\ session = "imapClient"
    /\ logins = 1
    /\ config.Insecure
    /\ dials = <<[kind |-> "Dial", addr |-> "127.0.0.1:143"]>>

Registered == {r \in Retrievals : pc[r] # "off"}
Issued == {r \in Retrievals : pc[r] \in {"fetching", "done"}}
Finished == {r \in Retrievals : pc[r] = "done"}

\* C15: no fetch goroutine calls UidFetch while startWg is unreleased; with
\* startWg released only after every launch returned, whenever a UidFetch
\* has been issued every retrieval has done its wg.Add(1).
C15_FetchAfterBarrier ==
    /\ fetchCalls # <<>> => startOpen
    /\ Len(fetchCalls) = Cardinality(Issued)
    /\ Issued # {} =>
           /\ Registered = Retrievals
           /\ wg = wgBefore + NRetrievals - Cardinality(Finished)

\* The first UidFetch has just been issued: all retrievals are registered
\* and none has finished.
C15_Witness ==
    /\ Len(fetchCalls) = 1
    /\ Registered = Retrievals
    /\ Finished = {}
    /\ wg = wgBefore + NRetrievals

\* C19: under fair scheduling, with the barrier released, the transport
\* returning and the consumer draining, every accepted retrieval ends with
\* the translation goroutine exited, the output channel closed and the wait
\* group decremented, whether or not a cancellation comes.
C19_RetrievalTerminates ==
    (mpc = "returned") ~>
        (pc["trans"] = "done" /\ outClosed = 1 /\ hookRuns = 1 /\ wg = wgBefore)

\* A retrieval ended after a cancellation that left the fetch goroutine
\* blocked with an undelivered result.
C19_Witness ==
    /\ pc["trans"] = "done"
    /\ outClosed = 1
    /\ hookRuns = 1
    /\ wg = wgBefore
    /\ cancelled = "early"
    /\ pc["fetch"] = "fetching"
    /\ plan # <<>>

====
